---- MODULE Spec2Model ----
(***************************************************************************)
(* Red Team Flashcards (mrhili/redteaming-flashcards).                      *)
(*                                                                         *)
(* The repository ships two copies of the application script: src/app.js   *)
(* and the later copy src/unnamed/part_001 (fast path in applyFilters,     *)
(* rebuilt filter options, integrity check in init, richer stats).  The    *)
(* variable `build` says which copy runs; everything else is the state of  *)
(* one App object, its Deck, the localforage store and the asynchronous    *)
(* operations in flight.                                                   *)
(*                                                                         *)
(* Conventions.  A JS object is a TLA+ function whose DOMAIN is the set of *)
(* keys that are present; an absent key is JS `undefined`.  A text that is *)
(* searched (question, answer, category, search box) is a sequence of      *)
(* one-character strings, so that trim(), toLowerCase(), join() and        *)
(* includes() are computed, not assumed.  deck.order and deck.index are    *)
(* 0-based as in the code; TLA+ sequences are 1-based, hence the +1.       *)
(***************************************************************************)
EXTENDS Integers, Sequences, FiniteSets

VARIABLES
  build,      \* which copy of the script runs: "app" or "part"
  deck,       \* this.deck
  labels,     \* this.labels
  stored,     \* what the localforage store holds under 'user_labels_v1'
  ui,         \* the DOM controls and displays the script reads and writes
  initPc,     \* where init() is: "fetch", "labels", "done", "failed"
  ioQ,        \* the store's operations in flight, oldest first
  exported,   \* the file exportData() last wrote
  editsLeft,  \* label edits the user may still make
  last        \* the handler that ran in the last step, whether it raised
              \* out of its handler, and the alert() it showed

vars == <<build, deck, labels, stored, ui, initPc, ioQ, exported, editsLeft, last>>

(***************************************************************************)
(* Bounds of the model.                                                    *)
(***************************************************************************)
MaxCards == 3
MaxEdits == 2
MaxPending == 2

Null == "null"
Undefined == "undefined"

(***************************************************************************)
(* JS helpers.                                                             *)
(***************************************************************************)
Has(o, k) == k \in DOMAIN o

\* o.k for a string-valued key: the value, or undefined when the key is absent
Get(o, k) == IF Has(o, k) THEN o[k] ELSE Undefined

\* truthiness of a string-valued expression (undefined and '' are falsy)
Truthy(v) == v # Undefined /\ v # "" /\ v # Null

\* a || b on string-valued expressions
OrElse(a, b) == IF Truthy(a) THEN a ELSE b

\* {...o, k: v}
Spread(o, k, v) == [x \in DOMAIN o \cup {k} |-> IF x = k THEN v ELSE o[x]]

\* _.range(n): <<0, 1, ..., n-1>>
Range(n) == [i \in 1..n |-> i - 1]

\* the elements of a sequence
Elems(s) == {s[i] : i \in DOMAIN s}

\* the members of a set of array positions, in increasing order: the result of
\* Array.prototype.filter, which walks the array from position 0 upwards
RECURSIVE Ascending(_, _, _)
Ascending(S, i, n) ==
  IF i >= n THEN <<>>
  ELSE (IF i \in S THEN <<i>> ELSE <<>>) \o Ascending(S, i + 1, n)

(***************************************************************************)
(* Texts.                                                                  *)
(***************************************************************************)
\* String.prototype.toLowerCase over the model's alphabet
LowerChar(c) == CASE c = "A" -> "a" [] c = "B" -> "b" [] c = "X" -> "x" [] OTHER -> c
ToLowerCase(t) == [i \in DOMAIN t |-> LowerChar(t[i])]

\* String.prototype.trim
RECURSIVE TrimLeft(_)
TrimLeft(t) == IF t # <<>> /\ Head(t) = " " THEN TrimLeft(Tail(t)) ELSE t
RECURSIVE TrimRight(_)
TrimRight(t) ==
  IF t # <<>> /\ t[Len(t)] = " " THEN TrimRight(SubSeq(t, 1, Len(t) - 1)) ELSE t
Trim(t) == TrimRight(TrimLeft(t))

\* String.prototype.includes
Includes(hay, q) ==
  \E i \in 0..(Len(hay) - Len(q)) : SubSeq(hay, i + 1, i + Len(q)) = q

\* Array.prototype.join(' ') on an array of texts
RECURSIVE JoinSpace(_)
JoinSpace(ts) ==
  IF ts = <<>> THEN <<>>
  ELSE IF Len(ts) = 1 THEN ts[1]
  ELSE ts[1] \o <<" ">> \o JoinSpace(Tail(ts))

\* string concatenation of an absent text: 'undefined'
UndefinedText == <<"u", "n", "d", "e", "f", "i", "n", "e", "d">>

\* c.question + ... : the text, or 'undefined' when the key is absent
TextOf(o, k) == IF Has(o, k) THEN o[k] ELSE UndefinedText

\* (c.k || '') on a text-valued key
TextOrEmpty(o, k) == IF Has(o, k) THEN o[k] ELSE <<>>

\* (c.categories || [])
CategoriesOf(c) == IF Has(c, "categories") THEN c.categories ELSE <<>>

(***************************************************************************)
(* Cards and datasets.  A card is whatever object the JSON holds           *)
(* (Card.constructor copies every key); the pool has a complete card, a    *)
(* card without the optional keys and a card without id and question.     *)
(***************************************************************************)
CardA == [id |-> "a", question |-> <<"A", "b">>, answer |-> <<"x">>,
          categories |-> << <<"n">> >>, difficulty |-> "easy",
          usefulness |-> "dangerous"]
CardB == [id |-> "b", question |-> <<"b">>, answer |-> <<"y">>]
CardC == [answer |-> <<"c">>, categories |-> << <<"n">> >>,
          difficulty |-> "hard", usefulness |-> "useful"]
PoolSeq == <<CardA, CardB, CardC>>

\* strictly increasing sequences of at most n members of 1..m
RECURSIVE Increasing(_, _)
Increasing(m, n) ==
  IF n = 0 THEN {<<>>}
  ELSE LET shorter == Increasing(m, n - 1)
       IN  shorter \cup
           {Append(p[1], p[2]) :
              p \in {q \in shorter \X (1..m) : q[1] = <<>> \/ q[1][Len(q[1])] < q[2]}}

\* the arrays of cards a cards.json or an import file may hold: up to MaxCards
\* cards of the pool
Datasets ==
  {[i \in 1..Len(ix) |-> PoolSeq[ix[i]]] : ix \in Increasing(Len(PoolSeq), MaxCards)}

DifficultyValues == {"easy", "medium", "hard"}
UsefulnessValues == {"useful", "dangerous", "information"}

(***************************************************************************)
(* class Card, class Deck                                                  *)
(***************************************************************************)
\* new Card(obj): Object.assign(this, obj)
NewCard(obj) == obj

\* this.deck = null
NoDeck == [exists |-> FALSE, cards |-> <<>>, index |-> 0, order |-> <<>>]

\* a constructor whose order runs one position past the cards
NewDeckSparePosition(cards) ==
  [exists |-> TRUE,
   cards  |-> [i \in DOMAIN cards |-> NewCard(cards[i])],
   index  |-> 0,
   order  |-> Range(Len(cards) + 1)]

\* new Deck(cards)
NewDeck(cards) ==
  [exists |-> TRUE,
   cards  |-> [i \in DOMAIN cards |-> NewCard(cards[i])],
   index  |-> 0,
   order  |-> Range(Len(cards))]

\* the permutations _.shuffle may return for an array
Shuffles(s) ==
  {[i \in DOMAIN s |-> s[p[i]]] :
     p \in {f \in [DOMAIN s -> DOMAIN s] : \A i, j \in DOMAIN s : f[i] = f[j] => i = j}}

\* a shuffle that takes every card of the deck, filtered out or not
DeckShuffleWholeDeck(d, shuffled) ==
  [d EXCEPT !.order = Range(Len(d.cards)), !.index = 0]

\* a shuffle that also turns the array of cards round
DeckShuffleTurnsCards(d, shuffled) ==
  [d EXCEPT !.cards = [i \in DOMAIN d.cards |-> d.cards[Len(d.cards) + 1 - i]],
            !.order = shuffled, !.index = 0]

\* Deck.shuffle with the permutation _.shuffle returned
DeckShuffle(d, shuffled) == [d EXCEPT !.order = shuffled, !.index = 0]

\* get Deck.current: has a card, and which position of deck.cards it is
DeckHasCurrent(d) == Len(d.order) # 0
DeckCurrentPos(d) == d.order[d.index + 1]
DeckCurrent(d) == d.cards[DeckCurrentPos(d) + 1]

\* a next() that stops at the last position
DeckNextStopsAtEnd(d) ==
  IF Len(d.order) = 0 THEN d
  ELSE [d EXCEPT !.index = IF d.index + 1 < Len(d.order) THEN d.index + 1
                           ELSE d.index]

\* Deck.next: the deck afterwards
DeckNext(d) ==
  IF Len(d.order) = 0 THEN d
  ELSE [d EXCEPT !.index = (d.index + 1) % Len(d.order)]

\* a prev() that rewinds the cursor of an empty order
DeckPrevRewindsEmpty(d) ==
  IF Len(d.order) = 0 THEN [d EXCEPT !.index = 0]
  ELSE [d EXCEPT !.index = (d.index - 1 + Len(d.order)) % Len(d.order)]

\* Deck.prev: the deck afterwards
DeckPrev(d) ==
  IF Len(d.order) = 0 THEN d
  ELSE [d EXCEPT !.index = (d.index - 1 + Len(d.order)) % Len(d.order)]

\* what next() / prev() / current return: null on an empty order, else the
\* position of the card they return
DeckReturn(d) == IF Len(d.order) = 0 THEN -1 ELSE DeckCurrentPos(d)

(***************************************************************************)
(* class App: rendering.  An App operator takes and returns the pair       *)
(* a = [deck, ui, threw]; threw says the handler raised (a TypeError on    *)
(* this.deck = null or on deck.current = null), after which the rest of    *)
(* the handler does not run.                                               *)
(***************************************************************************)
NoMatchText == <<"No cards match filters.">>
LoadFailText == <<"Failed to load cards.json">>

App(d, u) == [deck |-> d, ui |-> u, threw |-> FALSE]
Throw(a) == [a EXCEPT !.threw = TRUE]

\* this.labels[id] || {}
LabelOf(lab, id) == IF id \in DOMAIN lab THEN lab[id] ELSE <<>>

\* the key under which a card's label is kept: c.id, 'undefined' if absent
IdOf(c) == Get(c, "id")

\* _renderCardFront(card)
RenderCardFront(u, card) ==
  [u EXCEPT !.face = "front", !.question = TextOrEmpty(card, "question")]

\* _renderCardBack(card)
RenderCardBack(u, card) ==
  [u EXCEPT !.face = "back", !.question = TextOrEmpty(card, "answer")]

\* _applyLabelsToUI(id): raises when deck.current is null and is needed
ApplyLabelsToUI(a, lab, id) ==
  LET l == LabelOf(lab, id)
      hasCur == DeckHasCurrent(a.deck)
      needCurDiff == ~Truthy(Get(l, "difficulty"))
      needCurUse == ~Truthy(Get(l, "usefulness"))
  IN  IF needCurDiff /\ ~hasCur THEN Throw(a)
      ELSE LET u1 == [a.ui EXCEPT
                        !.diffActive =
                           IF needCurDiff THEN Get(DeckCurrent(a.deck), "difficulty")
                           ELSE l.difficulty,
                        !.graspedText = (Has(l, "grasped") /\ l.grasped)]
           IN  IF needCurUse /\ ~hasCur THEN Throw([a EXCEPT !.ui = u1])
               ELSE [a EXCEPT !.ui =
                       [u1 EXCEPT !.usefulnessSelect =
                          IF needCurUse
                          THEN OrElse(Get(DeckCurrent(a.deck), "usefulness"), "useful")
                          ELSE l.usefulness]]

\* showCurrent()
ShowCurrent(a, lab) ==
  IF a.threw THEN a
  ELSE IF ~a.deck.exists THEN Throw(a)
  ELSE IF ~DeckHasCurrent(a.deck) THEN a
  ELSE LET cur == DeckCurrent(a.deck)
       IN  ApplyLabelsToUI([a EXCEPT !.ui = RenderCardFront(a.ui, cur)], lab, IdOf(cur))

\* Object.values(this.labels).filter(x => x && x.grasped).length
GraspedCount(lab) ==
  Cardinality({id \in DOMAIN lab : Has(lab[id], "grasped") /\ lab[id].grasped})

\* renderStats() of src/app.js
RenderStatsApp(a, lab) ==
  IF ~a.deck.exists THEN Throw(a)
  ELSE [a EXCEPT !.ui.stats = [mode |-> "counts", shown |-> -1,
                               total |-> Len(a.deck.cards),
                               grasped |-> GraspedCount(lab)]]

\* renderStats() of src/unnamed/part_001
RenderStatsPart(a, lab) ==
  IF ~a.deck.exists THEN Throw(a)
  ELSE [a EXCEPT !.ui.stats = [mode |-> "counts", shown |-> Len(a.deck.order),
                               total |-> Len(a.deck.cards),
                               grasped |-> GraspedCount(lab)]]

RenderStats(b, a, lab) ==
  IF a.threw THEN a
  ELSE IF b = "app" THEN RenderStatsApp(a, lab) ELSE RenderStatsPart(a, lab)

(***************************************************************************)
(* App.applyFilters                                                        *)
(***************************************************************************)
\* const q = this.ui.search.value.trim().toLowerCase()
QueryText(u) == ToLowerCase(Trim(u.search))

\* the haystack of src/app.js: c.question is concatenated as it is
HayApp(c) ==
  ToLowerCase(TextOf(c, "question") \o <<" ">> \o JoinSpace(CategoriesOf(c))
              \o <<" ">> \o TextOrEmpty(c, "answer"))

\* the haystack of src/unnamed/part_001: (c.question || '')
HayPart(c) ==
  ToLowerCase(TextOrEmpty(c, "question") \o <<" ">> \o JoinSpace(CategoriesOf(c))
              \o <<" ">> \o TextOrEmpty(c, "answer"))

Hay(b, c) == IF b = "app" THEN HayApp(c) ELSE HayPart(c)

\* the callback of this.deck.cards.filter: the card's own fields are compared
CardPasses(b, c, u) ==
  LET q == QueryText(u)
  IN  /\ (q # <<>> => Includes(Hay(b, c), q))
      /\ (u.filterCategory # <<>> => u.filterCategory \in Elems(CategoriesOf(c)))
      /\ (u.filterDifficulty # "" => Get(c, "difficulty") = u.filterDifficulty)
      /\ (u.filterUsefulness # "" => Get(c, "usefulness") = u.filterUsefulness)

\* list.map(c => this.deck.cards.indexOf(c)): the cards are distinct objects,
\* so indexOf gives each kept card its own position, in array order
FilteredOrder(b, cards, u) ==
  Ascending({i \in 0..(Len(cards) - 1) : CardPasses(b, cards[i + 1], u)}, 0, Len(cards))

\* all four controls unset
NoQuery(u) ==
  /\ QueryText(u) = <<>>
  /\ u.filterCategory = <<>>
  /\ u.filterDifficulty = ""
  /\ u.filterUsefulness = ""

\* an applyFilters that rebuilds the order and leaves the cursor and the card
\* on display as they are
ApplyFiltersAppKeepsCursor(a, lab) ==
  IF ~a.deck.exists THEN Throw(a)
  ELSE LET ord == FilteredOrder("app", a.deck.cards, a.ui)
       IN  IF Len(ord) = 0
           THEN [a EXCEPT !.deck.order = ord, !.ui.question = NoMatchText]
           ELSE [a EXCEPT !.deck.order = ord]

\* applyFilters() of src/app.js
ApplyFiltersApp(a, lab) ==
  IF ~a.deck.exists THEN Throw(a)
  ELSE LET ord == FilteredOrder("app", a.deck.cards, a.ui)
       IN  IF Len(ord) = 0
           THEN [a EXCEPT !.deck.order = ord, !.ui.question = NoMatchText]
           ELSE ShowCurrent([a EXCEPT !.deck.order = ord, !.deck.index = 0], lab)

\* a fast path that rewinds the cursor and keeps the order it finds
FastPathKeepsOrder(a, lab) ==
  RenderStats("part", ShowCurrent([a EXCEPT !.deck.index = 0], lab), lab)

\* the fast path of applyFilters() of src/unnamed/part_001
FastPath(a, lab) ==
  RenderStats("part",
    ShowCurrent([a EXCEPT !.deck.order = Range(Len(a.deck.cards)), !.deck.index = 0],
                lab), lab)

\* an applyFilters that drops the failing cards from the order it finds
ApplyFiltersPartWithinOrder(a, lab) ==
  IF ~a.deck.exists THEN Throw(a)
  ELSE IF NoQuery(a.ui) THEN FastPath(a, lab)
  ELSE LET Passes(i) == CardPasses("part", a.deck.cards[i + 1], a.ui)
           ord == SelectSeq(a.deck.order, Passes)
       IN  IF Len(ord) = 0
           THEN RenderStats("part",
                  [a EXCEPT !.deck.order = ord, !.ui.question = NoMatchText], lab)
           ELSE RenderStats("part",
                  ShowCurrent([a EXCEPT !.deck.order = ord, !.deck.index = 0], lab), lab)

\* applyFilters() of src/unnamed/part_001
ApplyFiltersPart(a, lab) ==
  IF ~a.deck.exists THEN Throw(a)
  ELSE IF NoQuery(a.ui) THEN FastPath(a, lab)
  ELSE LET ord == FilteredOrder("part", a.deck.cards, a.ui)
       IN  IF Len(ord) = 0
           THEN RenderStats("part",
                  [a EXCEPT !.deck.order = ord, !.ui.question = NoMatchText], lab)
           ELSE RenderStats("part",
                  ShowCurrent([a EXCEPT !.deck.order = ord, !.deck.index = 0], lab), lab)

ApplyFilters(b, a, lab) ==
  IF a.threw THEN a
  ELSE IF b = "app" THEN ApplyFiltersApp(a, lab) ELSE ApplyFiltersPart(a, lab)

\* _populateFilters(arr) of src/app.js: options are appended to those present
PopulateFiltersApp(u, arr) ==
  [u EXCEPT !.catOptions =
     @ \cup UNION {Elems(CategoriesOf(arr[i])) : i \in DOMAIN arr}]

\* _populateFilters(arr) of src/unnamed/part_001: the select is rebuilt, which
\* leaves "All categories" (value '') selected
PopulateFiltersPart(u, arr) ==
  [u EXCEPT !.catOptions = UNION {Elems(CategoriesOf(arr[i])) : i \in DOMAIN arr},
            !.filterCategory = <<>>]

PopulateFilters(b, a, arr) ==
  IF a.threw THEN a
  ELSE [a EXCEPT !.ui = IF b = "app" THEN PopulateFiltersApp(a.ui, arr)
                        ELSE PopulateFiltersPart(a.ui, arr)]

(***************************************************************************)
(* class Storage over localforage.  The store runs its operations in the   *)
(* order they were issued; ioQ holds those not yet completed, each with    *)
(* the code that awaits it.  setItem is handed the labels object itself:   *)
(* while `live`, the value it will write is whatever that object holds     *)
(* when the store copies it; once the copy is taken, or once this.labels   *)
(* is reassigned to another object, the value is `snap`.                   *)
(***************************************************************************)
NoStored == [present |-> FALSE, value |-> <<>>]

\* no document: nothing exported yet, no parsed file held by a handler
NoFile == [kind |-> "none", dataset |-> <<>>, labels |-> <<>>]

\* saveLabels(this.labels), awaited by `cont`, which holds its locals: `id`
\* and `arg` (cur of toggleGrasped, diff of setDifficulty, val of
\* setUsefulness) for a label edit, `obj` for reader.onload of an import
SaveOp(cont, id, arg, obj) ==
  [kind |-> "save", live |-> TRUE, snap |-> <<>>, cont |-> cont, id |-> id,
   arg |-> arg, obj |-> obj]

\* loadLabels(), awaited by init
LoadOp ==
  [kind |-> "load", live |-> FALSE, snap |-> <<>>, cont |-> "init", id |-> "",
   arg |-> "", obj |-> NoFile]

\* the value a pending setItem writes
SaveValue(op, lab) == IF op.live THEN lab ELSE op.snap

\* this.labels = <another object>: pending saves keep the object they were given
Detach(q, lab) ==
  [i \in DOMAIN q |->
     IF q[i].kind = "save" /\ q[i].live
     THEN [q[i] EXCEPT !.live = FALSE, !.snap = lab] ELSE q[i]]

\* (await this.store.getItem(this.key)) || {}
LoadLabels(st) == IF st.present THEN st.value ELSE <<>>

(***************************************************************************)
(* Label edits: the synchronous part, up to the await                      *)
(***************************************************************************)
\* toggleGrasped: this.labels[id] = {...this.labels[id], grasped: !cur}
ToggleGraspedLabels(lab, id) ==
  LET l == LabelOf(lab, id)
      cur == Has(l, "grasped") /\ l.grasped
  IN  Spread(lab, id, Spread(l, "grasped", ~cur))

\* a setDifficulty that stores a fresh label holding the difficulty alone
SetDifficultyLabelsFresh(lab, id, diff) ==
  Spread(lab, id, Spread(<<>>, "difficulty", diff))

\* setDifficulty: this.labels[id] = {...this.labels[id], difficulty: diff}
SetDifficultyLabels(lab, id, diff) ==
  Spread(lab, id, Spread(LabelOf(lab, id), "difficulty", diff))

\* setUsefulness: this.labels[id] = {...this.labels[id], usefulness: val}
SetUsefulnessLabels(lab, id, val) ==
  Spread(lab, id, Spread(LabelOf(lab, id), "usefulness", val))

\* cycleUsefulness: opts[(opts.indexOf(cur) + 1) % opts.length]
CycleOpts == <<"useful", "dangerous", "information">>
IndexOfOpt(v) ==
  IF \E i \in DOMAIN CycleOpts : CycleOpts[i] = v
  THEN (CHOOSE i \in DOMAIN CycleOpts : CycleOpts[i] = v) - 1
  ELSE -1
CycleNext(lab, c) ==
  LET cur == OrElse(Get(LabelOf(lab, IdOf(c)), "usefulness"),
                    OrElse(Get(c, "usefulness"), "useful"))
  IN  CycleOpts[((IndexOfOpt(cur) + 1) % Len(CycleOpts)) + 1]

(***************************************************************************)
(* Export and import files                                                 *)
(***************************************************************************)
\* JSON.stringify of a label: a key whose value is undefined is left out
JsonLabel(l) ==
  [k \in {k \in DOMAIN l : k = "grasped" \/ l[k] # Undefined} |-> l[k]]

\* JSON.stringify / JSON.parse of the label mapping
JsonLabels(lab) == [id \in DOMAIN lab |-> JsonLabel(lab[id])]

\* JSON.stringify / JSON.parse of the cards: every key of a card is JSON data
JsonCards(cards) == [i \in DOMAIN cards |-> cards[i]]

\* the document exportData writes: {dataset: this.deck.cards, labels: this.labels}
ExportPayload(d, lab) ==
  [kind |-> "combined", dataset |-> JsonCards(d.cards), labels |-> JsonLabels(lab)]

\* the export file, once there is one
ExportedFiles == IF exported.kind = "combined" THEN {exported} ELSE {}

\* the label mapping of an import file made elsewhere (a file with the empty
\* mapping comes from exportData)
FileLabels ==
  { [x \in {"b"} |-> [difficulty |-> "hard", grasped |-> TRUE]] }

\* files the user may pick: a bare array, {dataset, labels}, another shape
\* such as {"foo": 1}, the document null, and text that is not JSON
ImportFiles(datasets) ==
  {[kind |-> "array", dataset |-> ds, labels |-> <<>>] : ds \in datasets}
  \cup {[kind |-> "combined", dataset |-> ds, labels |-> fl] :
          ds \in datasets, fl \in FileLabels}
  \cup {[kind |-> k, dataset |-> <<>>, labels |-> <<>>] :
          k \in {"other", "null", "invalid"}}

(***************************************************************************)
(* The initial state: new App() has run its constructor, init() is         *)
(* suspended in fetch('cards.json'), the store holds what an earlier       *)
(* session left.                                                           *)
(***************************************************************************)
InitialUi ==
  [search |-> <<>>, filterCategory |-> <<>>, filterDifficulty |-> "",
   filterUsefulness |-> "", catOptions |-> {}, searchTimer |-> FALSE,
   question |-> <<>>, face |-> "front", diffActive |-> Undefined,
   graspedText |-> FALSE, usefulnessSelect |-> "",
   stats |-> [mode |-> "blank", shown |-> -1, total |-> 0, grasped |-> 0]]

\* what an earlier session may have left in the store
InitialStored ==
  { NoStored,
    [present |-> TRUE,
     value |-> [x \in {"a", "b"} |->
                  IF x = "a" THEN [difficulty |-> "hard"] ELSE [grasped |-> TRUE]]] }

\* what the user types into the search box, and the options picked in the
\* usefulness filter
SearchInputs == { <<>>, <<" ">>, <<" ", "B">> }
FilterUsefulnessValues == {"useful"}

Init ==
  /\ build \in {"app", "part"}
  /\ deck = NoDeck
  /\ labels = <<>>
  /\ stored \in InitialStored
  /\ ui = InitialUi
  /\ initPc = "fetch"
  /\ ioQ = <<>>
  /\ exported = NoFile
  /\ editsLeft = MaxEdits
  /\ last = [op |-> "new", raised |-> FALSE, alert |-> ""]

\* handler `op` ran to its end, or raised out of it: what it left behind
Commit(a, op) ==
  /\ deck' = a.deck
  /\ ui' = a.ui
  /\ last' = [op |-> op, raised |-> a.threw, alert |-> ""]

\* handler `op` ran without raising and without an alert
Did(op) == last' = [op |-> op, raised |-> FALSE, alert |-> ""]

(***************************************************************************)
(* App.init                                                                *)
(***************************************************************************)
\* step 7 of init in src/unnamed/part_001, outside the try/catch
IntegrityCheck(b, a) ==
  IF b = "app" THEN a
  ELSE IF ~a.deck.exists THEN Throw(a)
  ELSE LET bad == {i \in DOMAIN a.deck.cards :
                     \/ ~Truthy(Get(a.deck.cards[i], "id"))
                     \/ TextOrEmpty(a.deck.cards[i], "question") = <<>>
                     \/ TextOrEmpty(a.deck.cards[i], "answer") = <<>>}
       IN  IF bad = {} THEN a
           ELSE [a EXCEPT !.ui.stats = [mode |-> "warning", shown |-> -1,
                                        total |-> Len(a.deck.cards), grasped |-> 0]]

\* fetch and res.json() resolved with the array arr; init runs up to
\* `await this.storage.loadLabels()`
InitFetched(arr) ==
  /\ initPc = "fetch"
  /\ Len(ioQ) < MaxPending
  /\ initPc' = "labels"
  /\ Commit(PopulateFilters(build, App(NewDeck(arr), ui), arr), "initFetched")
  /\ ioQ' = Append(ioQ, LoadOp)
  /\ UNCHANGED <<build, labels, stored, exported, editsLeft>>

\* fetch or res.json() rejected: the catch block, then the integrity check
InitFetchFailed ==
  /\ initPc = "fetch"
  /\ initPc' = "failed"
  /\ Commit(IntegrityCheck(build, App(deck, [ui EXCEPT !.question = LoadFailText])),
            "initFailed")
  /\ UNCHANGED <<build, labels, stored, ioQ, exported, editsLeft>>

\* loadLabels() resolved: the rest of init
InitLabelsLoaded ==
  /\ ioQ # <<>> /\ Head(ioQ).kind = "load"
  /\ initPc' = "done"
  /\ LET lab == LoadLabels(stored)
         a == ShowCurrent(RenderStats(build,
                ApplyFilters(build, App(deck, ui), lab), lab), lab)
         caught == IF a.threw
                   THEN [a EXCEPT !.threw = FALSE, !.ui.question = LoadFailText]
                   ELSE a
     IN  /\ labels' = lab
         /\ Commit(IntegrityCheck(build, caught), "initLoaded")
  /\ ioQ' = Detach(Tail(ioQ), labels)
  /\ UNCHANGED <<build, stored, exported, editsLeft>>

(***************************************************************************)
(* Navigation and view                                                     *)
(***************************************************************************)
\* showNext(): this.deck.next(); this.showCurrent()
ShowNext ==
  /\ Commit(IF deck.exists THEN ShowCurrent(App(DeckNext(deck), ui), labels)
            ELSE Throw(App(deck, ui)), "next")
  /\ UNCHANGED <<build, labels, stored, initPc, ioQ, exported, editsLeft>>

\* showPrev(): this.deck.prev(); this.showCurrent()
ShowPrev ==
  /\ Commit(IF deck.exists THEN ShowCurrent(App(DeckPrev(deck), ui), labels)
            ELSE Throw(App(deck, ui)), "prev")
  /\ UNCHANGED <<build, labels, stored, initPc, ioQ, exported, editsLeft>>

\* shuffle(): this.deck.shuffle(); this.showCurrent()
Shuffle ==
  /\ \/ /\ deck.exists
        /\ \E shuffled \in Shuffles(deck.order) :
             Commit(ShowCurrent(App(DeckShuffle(deck, shuffled), ui), labels), "shuffle")
     \/ /\ ~deck.exists
        /\ Commit(Throw(App(deck, ui)), "shuffle")
  /\ UNCHANGED <<build, labels, stored, initPc, ioQ, exported, editsLeft>>

\* flip()
Flip ==
  /\ Commit(IF ~deck.exists THEN Throw(App(deck, ui))
            ELSE IF ~DeckHasCurrent(deck) THEN App(deck, ui)
            ELSE IF ui.face = "front"
                 THEN App(deck, RenderCardBack(ui, DeckCurrent(deck)))
                 ELSE App(deck, RenderCardFront(ui, DeckCurrent(deck))), "flip")
  /\ UNCHANGED <<build, labels, stored, initPc, ioQ, exported, editsLeft>>

(***************************************************************************)
(* Filter controls                                                         *)
(***************************************************************************)
\* 'input' on the search box: the text changes, applyFilters is debounced
SearchInput(text) ==
  /\ ui' = [ui EXCEPT !.search = text, !.searchTimer = TRUE]
  /\ Did("type")
  /\ UNCHANGED <<build, deck, labels, stored, initPc, ioQ, exported, editsLeft>>

\* the debounce timer of the search box fires
SearchDebounced ==
  /\ ui.searchTimer
  /\ Commit(ApplyFilters(build, App(deck, [ui EXCEPT !.searchTimer = FALSE]), labels),
            "filter")
  /\ UNCHANGED <<build, labels, stored, initPc, ioQ, exported, editsLeft>>

\* 'change' on the category select
ChangeCategory(cat) ==
  /\ cat \in ui.catOptions \cup {<<>>}
  /\ Commit(ApplyFilters(build, App(deck, [ui EXCEPT !.filterCategory = cat]), labels),
            "filter")
  /\ UNCHANGED <<build, labels, stored, initPc, ioQ, exported, editsLeft>>

\* 'change' on the difficulty select
ChangeDifficulty(diff) ==
  /\ Commit(ApplyFilters(build, App(deck, [ui EXCEPT !.filterDifficulty = diff]), labels),
            "filter")
  /\ UNCHANGED <<build, labels, stored, initPc, ioQ, exported, editsLeft>>

\* 'change' on the usefulness select
ChangeUsefulness(use) ==
  /\ Commit(ApplyFilters(build, App(deck, [ui EXCEPT !.filterUsefulness = use]), labels),
            "filter")
  /\ UNCHANGED <<build, labels, stored, initPc, ioQ, exported, editsLeft>>

\* the clear-filters button of src/unnamed/part_001
ClearFilters ==
  /\ build = "part"
  /\ Commit(ApplyFilters(build,
              App(deck, [ui EXCEPT !.search = <<>>, !.filterCategory = <<>>,
                                   !.filterDifficulty = "", !.filterUsefulness = ""]),
              labels), "filter")
  /\ UNCHANGED <<build, labels, stored, initPc, ioQ, exported, editsLeft>>

\* a sidebar category button of src/unnamed/part_001: toggles the category
CategoryButton(cat) ==
  /\ build = "part"
  /\ cat \in ui.catOptions
  /\ Commit(ApplyFilters(build,
              App(deck, [ui EXCEPT !.filterCategory =
                                     IF ui.filterCategory = cat THEN <<>> ELSE cat]),
              labels), "filter")
  /\ UNCHANGED <<build, labels, stored, initPc, ioQ, exported, editsLeft>>

(***************************************************************************)
(* Label edits                                                             *)
(***************************************************************************)
\* the common frame of toggleGrasped / setDifficulty / setUsefulness: raise on
\* this.deck = null, return when there is no current card, else store the new
\* label and suspend in `await this.storage.saveLabels(this.labels)`
LabelEdit(newLabels, op, cont, arg) ==
  /\ UNCHANGED <<build, deck, ui, stored, initPc, exported>>
  /\ IF ~deck.exists
     THEN /\ last' = [op |-> op, raised |-> TRUE, alert |-> ""]
          /\ UNCHANGED <<labels, ioQ, editsLeft>>
     ELSE IF ~DeckHasCurrent(deck)
     THEN Did(op) /\ UNCHANGED <<labels, ioQ, editsLeft>>
     ELSE /\ editsLeft > 0
          /\ Len(ioQ) < MaxPending
          /\ Did(op)
          /\ labels' = newLabels
          /\ ioQ' = Append(ioQ, SaveOp(cont, IdOf(DeckCurrent(deck)), arg, NoFile))
          /\ editsLeft' = editsLeft - 1

\* the id of the current card, where there is one
CurrentId == IF deck.exists /\ DeckHasCurrent(deck) THEN IdOf(DeckCurrent(deck)) ELSE Undefined

\* (this.labels[id] && this.labels[id].grasped) ? true : false
GraspedFlag(lab, id) == Has(LabelOf(lab, id), "grasped") /\ LabelOf(lab, id).grasped

\* a boolean local as the text kept with a pending handler
BoolText(b) == IF b THEN "true" ELSE "false"

\* toggleGrasped()
ToggleGrasped ==
  LabelEdit(ToggleGraspedLabels(labels, CurrentId), "toggleGrasped",
            "toggleGrasped", BoolText(GraspedFlag(labels, CurrentId)))

\* setDifficulty(diff)
SetDifficulty(diff) ==
  LabelEdit(SetDifficultyLabels(labels, CurrentId, diff), "setDifficulty",
            "setDifficulty", diff)

\* setUsefulness(val)
SetUsefulness(val) ==
  LabelEdit(SetUsefulnessLabels(labels, CurrentId, val), "setUsefulness",
            "setUsefulness", val)

\* the value cycleUsefulness passes on, where there is a current card
CycleValue ==
  IF deck.exists /\ DeckHasCurrent(deck) THEN CycleNext(labels, DeckCurrent(deck))
  ELSE Undefined

\* cycleUsefulness(): await this.setUsefulness(opts[i])
CycleUsefulness ==
  LabelEdit(SetUsefulnessLabels(labels, CurrentId, CycleValue), "cycleUsefulness",
            "setUsefulness", CycleValue)

\* the handlers suspended in the saveLabels of a label edit
EditConts == {"toggleGrasped", "setDifficulty", "setUsefulness"}

\* the store copies the object of the oldest setItem that it has not copied yet
StoragePut ==
  /\ \E i \in DOMAIN ioQ :
       /\ ioQ[i].kind = "save" /\ ioQ[i].live
       /\ \A j \in 1..(i - 1) : ~(ioQ[j].kind = "save" /\ ioQ[j].live)
       /\ ioQ' = [ioQ EXCEPT ![i] = [@ EXCEPT !.live = FALSE, !.snap = labels]]
  /\ Did("put")
  /\ UNCHANGED <<build, deck, labels, stored, ui, initPc, exported, editsLeft>>

\* saveLabels of a label edit resolved: _applyLabelsToUI(id); renderStats()
EditSaved ==
  /\ ioQ # <<>> /\ Head(ioQ).kind = "save" /\ Head(ioQ).cont \in EditConts
  /\ stored' = [present |-> TRUE, value |-> SaveValue(Head(ioQ), labels)]
  /\ ioQ' = Tail(ioQ)
  /\ Commit(RenderStats(build,
              ApplyLabelsToUI(App(deck, ui), labels, Head(ioQ).id), labels),
            "editSaved")
  /\ UNCHANGED <<build, labels, initPc, exported, editsLeft>>

\* saveLabels of a label edit rejected: the handler's promise rejects, nothing
\* catches it, the rest of the handler does not run
EditSaveFailed ==
  /\ ioQ # <<>> /\ Head(ioQ).kind = "save" /\ Head(ioQ).cont \in EditConts
  /\ ioQ' = Tail(ioQ)
  /\ last' = [op |-> "editFailed", raised |-> TRUE, alert |-> ""]
  /\ UNCHANGED <<build, deck, labels, stored, ui, initPc, exported, editsLeft>>

(***************************************************************************)
(* Export and import                                                       *)
(***************************************************************************)
\* exportData()
ExportData ==
  /\ IF deck.exists
     THEN Did("export") /\ exported' = ExportPayload(deck, labels)
     ELSE /\ last' = [op |-> "export", raised |-> TRUE, alert |-> ""]
          /\ UNCHANGED exported
  /\ UNCHANGED <<build, deck, labels, stored, ui, initPc, ioQ, editsLeft>>

\* JSON.parse(e.target.result) raises
ParseFails(file) == file.kind = "invalid"

\* Array.isArray(obj)
IsArray(file) == file.kind = "array"

\* obj.dataset raises: obj is null
ReadFails(file) == file.kind = "null"

\* obj.dataset && obj.labels
HasDatasetAndLabels(file) == file.kind = "combined"

\* a tail of reader.onload without applyFilters
ImportTailUnfiltered(b, a, lab) ==
  RenderStats(b, PopulateFilters(b, a, a.deck.cards), lab)

\* the tail of reader.onload: _populateFilters; applyFilters; renderStats
ImportTail(b, a, lab) ==
  RenderStats(b, ApplyFilters(b, PopulateFilters(b, a, a.deck.cards), lab), lab)

\* reader.onload ran to its end, or to its catch: alert('Invalid JSON')
ImportEnds(a, op) ==
  /\ deck' = a.deck
  /\ ui' = a.ui
  /\ last' = [op |-> op, raised |-> FALSE,
              alert |-> IF a.threw THEN "Invalid JSON" ELSE ""]

\* a reader.onload that builds the deck before it looks at the shape
ImportRejectsAfterAssign(text) ==
  /\ last' = [op |-> "importRejected", raised |-> FALSE, alert |-> text]
  /\ deck' = NewDeck(<<>>)
  /\ UNCHANGED <<labels, ui, ioQ>>

\* alert(text) and leave reader.onload: the else branch, or the catch block
\* reached before anything was assigned
ImportRejects(text) ==
  /\ last' = [op |-> "importRejected", raised |-> FALSE, alert |-> text]
  /\ UNCHANGED <<deck, labels, ui, ioQ>>

\* a reader.onload that takes obj.labels in every branch
ImportedLabelsAlways(file, lab) == file.labels

\* this.labels after the branches of reader.onload: only the {dataset, labels}
\* branch assigns it
ImportedLabels(file, lab) ==
  IF HasDatasetAndLabels(file) THEN file.labels ELSE lab

\* reader.onload for the file the user picked, up to its end or its await
HandleImport(file) ==
  /\ UNCHANGED <<build, stored, initPc, exported, editsLeft>>
  /\ IF ParseFails(file) THEN ImportRejects("Invalid JSON")
     ELSE IF IsArray(file)
     THEN /\ ImportEnds(ImportTail(build, App(NewDeck(file.dataset), ui),
                                   ImportedLabels(file, labels)), "importArray")
          /\ labels' = ImportedLabels(file, labels)
          /\ UNCHANGED ioQ
     ELSE IF ReadFails(file) THEN ImportRejects("Invalid JSON")
     ELSE IF HasDatasetAndLabels(file)
     THEN /\ Len(ioQ) < MaxPending
          /\ deck' = NewDeck(file.dataset)
          /\ labels' = ImportedLabels(file, labels)
          /\ ioQ' = Append(Detach(ioQ, labels), SaveOp("import", "", "", file))
          /\ Did("importCombined")
          /\ UNCHANGED ui
     ELSE ImportRejects("Unknown JSON structure.")

\* saveLabels of a combined import resolved: the tail of reader.onload
ImportSaved ==
  /\ ioQ # <<>> /\ Head(ioQ).kind = "save" /\ Head(ioQ).cont = "import"
  /\ stored' = [present |-> TRUE, value |-> SaveValue(Head(ioQ), labels)]
  /\ ioQ' = Tail(ioQ)
  /\ ImportEnds(ImportTail(build, App(deck, ui), labels), "importSaved")
  /\ UNCHANGED <<build, labels, initPc, exported, editsLeft>>

\* saveLabels of a combined import rejected: the catch block of reader.onload
ImportSaveFailed ==
  /\ ioQ # <<>> /\ Head(ioQ).kind = "save" /\ Head(ioQ).cont = "import"
  /\ ioQ' = Tail(ioQ)
  /\ last' = [op |-> "importFailed", raised |-> FALSE, alert |-> "Invalid JSON"]
  /\ UNCHANGED <<build, deck, labels, stored, ui, initPc, exported, editsLeft>>

(***************************************************************************)
(* The program                                                             *)
(***************************************************************************)
InitSteps ==
  \/ \E arr \in Datasets : InitFetched(arr)
  \/ InitFetchFailed
  \/ InitLabelsLoaded

NavSteps ==
  \/ ShowNext
  \/ ShowPrev
  \/ Shuffle

FilterSteps ==
  \/ \E text \in SearchInputs : SearchInput(text)
  \/ SearchDebounced
  \/ \E cat \in ui.catOptions \cup {<<>>} : ChangeCategory(cat)
  \/ \E diff \in DifficultyValues \cup {""} : ChangeDifficulty(diff)
  \/ \E use \in FilterUsefulnessValues \cup {""} : ChangeUsefulness(use)
  \/ ClearFilters
  \/ \E cat \in ui.catOptions : CategoryButton(cat)

LabelSteps ==
  \/ ToggleGrasped
  \/ \E diff \in DifficultyValues : SetDifficulty(diff)
  \/ \E val \in UsefulnessValues : SetUsefulness(val)
  \/ CycleUsefulness
  \/ StoragePut
  \/ EditSaved
  \/ EditSaveFailed

ImportSteps ==
  \/ ExportData
  \/ \E file \in ImportFiles(Datasets) \cup ExportedFiles : HandleImport(file)
  \/ ImportSaved
  \/ ImportSaveFailed

\* the whole program
Next == InitSteps \/ NavSteps \/ Flip \/ FilterSteps \/ LabelSteps \/ ImportSteps

Spec == Init /\ [][Next]_vars

\* card lists of cards.json and of import files while importing and exporting
ImportDatasets == {<<>>, <<CardB, CardC>>}

\* files picked in the import dialog: a {dataset, labels} file without cards
\* is one that exportData wrote
ImportInputs ==
  {f \in ImportFiles(ImportDatasets) : f.kind = "combined" => f.dataset # <<>>}
  \cup ExportedFiles

\* the program while the user imports and exports and sets the difficulty
\* filter
NextImport ==
  \/ \E arr \in ImportDatasets : InitFetched(arr)
  \/ InitFetchFailed
  \/ InitLabelsLoaded
  \/ ExportData
  \/ \E file \in ImportInputs : HandleImport(file)
  \/ ImportSaved
  \/ \E diff \in {"", "hard"} : ChangeDifficulty(diff)

SpecImport == Init /\ [][NextImport]_vars

\* the program while the user moves the cursor, filters by difficulty and
\* imports bare arrays
NextCursor ==
  \/ \E arr \in ImportDatasets : InitFetched(arr)
  \/ InitLabelsLoaded
  \/ NavSteps
  \/ \E diff \in DifficultyValues \cup {""} : ChangeDifficulty(diff)
  \/ \E file \in {f \in ImportFiles(Datasets) : IsArray(f)} : HandleImport(file)

SpecCursor == Init /\ [][NextCursor]_vars

\* card lists of cards.json while labels are edited
EditDatasets == {<<>>, <<CardA, CardB>>}

\* the program while the user edits labels, moves on, shuffles and sets the
\* difficulty filter
NextEdit ==
  \/ \E arr \in EditDatasets : InitFetched(arr)
  \/ InitFetchFailed
  \/ InitLabelsLoaded
  \/ ShowNext
  \/ Shuffle
  \/ \E diff \in {"", "hard"} : ChangeDifficulty(diff)
  \/ ToggleGrasped
  \/ \E diff \in {"hard"} : SetDifficulty(diff)
  \/ StoragePut
  \/ EditSaved
  \/ EditSaveFailed

SpecEdit == Init /\ [][NextEdit]_vars

\* the program while the user edits all three label fields and moves on
NextLabel ==
  \/ \E arr \in EditDatasets : InitFetched(arr)
  \/ InitLabelsLoaded
  \/ ShowNext
  \/ ToggleGrasped
  \/ \E diff \in {"hard"} : SetDifficulty(diff)
  \/ \E val \in {"useful"} : SetUsefulness(val)
  \/ CycleUsefulness
  \/ StoragePut
  \/ EditSaved

SpecLabel == Init /\ [][NextLabel]_vars

\* the bare-array files imported while the frame of the handlers is checked
FrameFiles == {f \in ImportFiles({<<CardB, CardC>>}) : IsArray(f)}

\* the program while the user browses, flips, filters by difficulty, marks
\* cards as grasped and imports a bare array
NextFrame ==
  \/ \E arr \in EditDatasets : InitFetched(arr)
  \/ InitLabelsLoaded
  \/ NavSteps
  \/ Flip
  \/ \E diff \in {"", "hard"} : ChangeDifficulty(diff)
  \/ ToggleGrasped
  \/ EditSaved
  \/ \E file \in FrameFiles : HandleImport(file)

SpecFrame == Init /\ [][NextFrame]_vars

\* the program while the user only browses: startup, navigation, shuffle and
\* the filter controls
NextView == InitSteps \/ NavSteps \/ FilterSteps

SpecView == Init /\ [][NextView]_vars

(***************************************************************************)
(* Properties.  `Filtered` says that applyFilters ran to its end in the    *)
(* last step (a filter control, the search debounce, the end of init or    *)
(* the end of an import).                                                  *)
(***************************************************************************)
Filtered ==
  /\ last.op \in {"filter", "initLoaded", "importArray", "importSaved"}
  /\ ~last.raised
  /\ last.alert = ""
  /\ deck.exists

\* the effective value of the glossary: the label override if present, else
\* the card's own field, else the documented default
EffectiveDifficulty(lab, c) ==
  OrElse(Get(LabelOf(lab, IdOf(c)), "difficulty"),
         OrElse(Get(c, "difficulty"), "medium"))
EffectiveUsefulness(lab, c) ==
  OrElse(Get(LabelOf(lab, IdOf(c)), "usefulness"),
         OrElse(Get(c, "usefulness"), "useful"))

\* the four predicates of the filter contract, on effective values
ContractPasses(c, u, lab) ==
  /\ (QueryText(u) # <<>> => Includes(HayPart(c), QueryText(u)))
  /\ (u.filterCategory # <<>> => u.filterCategory \in Elems(CategoriesOf(c)))
  /\ (u.filterDifficulty # "" => EffectiveDifficulty(lab, c) = u.filterDifficulty)
  /\ (u.filterUsefulness # "" => EffectiveUsefulness(lab, c) = u.filterUsefulness)

\* C1: after applyFilters, index i is in deck.order iff card i satisfies all
\* active predicates, difficulty and usefulness being compared on the card's
\* effective value (label override, else own field, else default).
C1_FilterOnEffectiveValues ==
  Filtered =>
    \A i \in 0..(Len(deck.cards) - 1) :
      (i \in Elems(deck.order)) <=> ContractPasses(deck.cards[i + 1], ui, labels)

\* a card with no difficulty field and no label override for difficulty
NoDifficulty(lab, c) ==
  ~Has(c, "difficulty") /\ ~Has(LabelOf(lab, IdOf(c)), "difficulty")

\* only the difficulty control is set
OnlyDifficulty(u) ==
  /\ QueryText(u) = <<>>
  /\ u.filterCategory = <<>>
  /\ u.filterUsefulness = ""
  /\ u.filterDifficulty # ""

\* C2: a card with no difficulty field and no label override counts as
\* "medium" in filtering and in display: a difficulty = "medium" query keeps
\* it, "easy" and "hard" drop it, and when it is the card shown the
\* difficulty displayed as active is "medium".
C2_MissingDifficultyIsMedium ==
  Filtered =>
    /\ OnlyDifficulty(ui) =>
         \A i \in 0..(Len(deck.cards) - 1) :
           NoDifficulty(labels, deck.cards[i + 1]) =>
             ((i \in Elems(deck.order)) <=> (ui.filterDifficulty = "medium"))
    /\ (DeckHasCurrent(deck) /\ NoDifficulty(labels, DeckCurrent(deck)))
         => ui.diffActive = "medium"

\* C3: with all four criteria unset, applyFilters on a loaded dataset of n
\* cards sets deck.order to <<0, ..., n-1>> and the cursor to 0, whatever the
\* order and cursor were before.
C3_UnsetQueryGivesLoadOrder ==
  (Filtered /\ NoQuery(ui)) =>
    /\ deck.order = Range(Len(deck.cards))
    /\ deck.index = 0

\* applyFilters has run with all four controls unset on three loaded cards,
\* the search box having been used
C3_Witness ==
  /\ last.op = "filter" /\ ~last.raised
  /\ NoQuery(ui)
  /\ ui.search # <<>>
  /\ initPc = "done"
  /\ Len(deck.cards) = 3
  /\ deck.order = <<0, 1, 2>>
  /\ deck.index = 0

\* next() applied k times
RECURSIVE NextTimes(_, _)
NextTimes(d, k) == IF k = 0 THEN d ELSE NextTimes(DeckNext(d), k - 1)

\* C4: on an order of length k > 0, at any cursor, k calls of next() come back
\* to the same current card, and prev() right after next(), and next() right
\* after prev(), come back to it too, also across the wraparound.
C4_NavigationWraps ==
  (deck.exists /\ Len(deck.order) > 0) =>
    /\ deck.index \in 0..(Len(deck.order) - 1)
    /\ NextTimes(deck, Len(deck.order)) = deck
    /\ DeckReturn(NextTimes(deck, Len(deck.order))) = DeckReturn(deck)
    /\ DeckPrev(DeckNext(deck)) = deck
    /\ DeckNext(DeckPrev(deck)) = deck

\* next() has just wrapped from the last position of a shuffled three-card
\* order to the first
C4_Witness ==
  /\ last.op = "next" /\ ~last.raised
  /\ Len(deck.order) = 3
  /\ deck.order # <<0, 1, 2>>
  /\ deck.index = 0

\* C5: on an empty order next() and prev() do not raise, return null, and
\* leave order and cursor (and what is displayed) as they were; current is null.
C5_EmptyDeckSafe ==
  [][(last'.op \in {"next", "prev"} /\ deck.exists /\ Len(deck.order) = 0)
       => /\ ~last'.raised
          /\ deck' = deck
          /\ ui' = ui
          /\ ~DeckHasCurrent(deck')
          /\ DeckReturn(DeckNext(deck)) = -1
          /\ DeckReturn(DeckPrev(deck)) = -1]_vars

\* prev() has run on a deck of two cards that a filter emptied while the
\* cursor stood at 1
C5_Witness ==
  /\ last.op = "prev" /\ ~last.raised
  /\ deck.exists
  /\ Len(deck.cards) = 2
  /\ deck.order = <<>>
  /\ deck.index = 1

\* how often x occurs in the sequence s
Count(s, x) == Cardinality({i \in DOMAIN s : s[i] = x})

\* C6: shuffle() keeps the multiset of indices in deck.order (so under an
\* active filter it stays inside the filtered subset) and sets the cursor to
\* 0; on an empty order the order stays empty and nothing else changes.
C6_ShufflePreservesMembership ==
  [][(last'.op = "shuffle" /\ deck.exists)
       => /\ ~last'.raised
          /\ \A x \in Elems(deck.order) \cup Elems(deck'.order) :
               Count(deck'.order, x) = Count(deck.order, x)
          /\ deck'.index = 0
          /\ deck'.cards = deck.cards
          /\ (deck.order = <<>> =>
                /\ deck'.order = <<>>
                /\ ui' = ui
                /\ <<labels, stored, ioQ, initPc>>' = <<labels, stored, ioQ, initPc>>)]_vars

\* shuffle() has reordered the two cards a filter left of three
C6_Witness ==
  /\ last.op = "shuffle" /\ ~last.raised
  /\ Len(deck.cards) = 3
  /\ deck.order = <<2, 0>>
  /\ deck.index = 0
  /\ ~NoQuery(ui)

\* reader.onload of an import ran to its end without an alert
ImportEnded ==
  /\ last.op \in {"importArray", "importSaved"}
  /\ ~last.raised
  /\ last.alert = ""
  /\ deck.exists

\* C7: exportData writes the cards and the label mapping as they are, and an
\* import of that artifact that is the only outstanding operation and still
\* finds its cards in place ends with the cards, the labels in memory and the
\* persisted labels of the artifact.
C7_ExportImportRoundTrip ==
  [][/\ (last'.op = "export" /\ ~last'.raised)
          => (exported'.dataset = deck.cards /\ exported'.labels = labels)
     /\ (/\ last'.op = "importSaved"
         /\ Len(ioQ) = 1
         /\ Head(ioQ).obj = exported
         /\ deck.exists
         /\ deck.cards = exported.dataset)
          => /\ deck'.cards = exported.dataset
             /\ labels' = exported.labels
             /\ stored' = [present |-> TRUE, value |-> exported.labels]]_vars

\* C8: an import whose document is neither a card array nor {dataset, labels}
\* ends in an alert and leaves the cards, the labels in memory, the persisted
\* labels, the order and the cursor (and the pending operations) as they were.
C8_MalformedImportRejected ==
  [][last'.op = "importRejected"
       => /\ last'.alert \in {"Unknown JSON structure.", "Invalid JSON"}
          /\ ~last'.raised
          /\ deck' = deck
          /\ labels' = labels
          /\ stored' = stored
          /\ ui' = ui
          /\ ioQ' = ioQ]_vars

\* a document of another shape was rejected while two cards were loaded under
\* a difficulty filter, with labels in memory and in the store
C8_Witness ==
  /\ last.op = "importRejected"
  /\ last.alert = "Unknown JSON structure."
  /\ deck.exists
  /\ deck.cards = <<CardB, CardC>>
  /\ deck.order = <<1>>
  /\ labels # <<>>
  /\ stored.present /\ stored.value # <<>>

\* C9 as stated: after either form of import deck.order is <<0, ..., n-1>> and
\* the cursor is 0, whatever filter was active before.
C9_ImportResetsFilters ==
  ImportEnded =>
    /\ deck.order = Range(Len(deck.cards))
    /\ deck.index = 0

\* C9, amended: after either form of import deck.order lists, in load order,
\* exactly the cards of the card store that pass the filter controls as they
\* stand (compared on the cards' own fields), and the cursor is 0 whenever
\* that order is not empty.
C9_ImportKeepsActiveFilters ==
  ImportEnded =>
    /\ \A i, j \in DOMAIN deck.order : i < j => deck.order[i] < deck.order[j]
    /\ \A i \in 0..(Len(deck.cards) - 1) :
         (i \in Elems(deck.order)) <=> CardPasses(build, deck.cards[i + 1], ui)
    /\ (deck.order # <<>> => deck.index = 0)

\* a {dataset, labels} import ended under the difficulty filter "hard": of the
\* two imported cards only the hard one is in the order
C9_Witness ==
  /\ last.op = "importSaved" /\ last.alert = ""
  /\ ui.filterDifficulty = "hard"
  /\ deck.cards = <<CardB, CardC>>
  /\ deck.order = <<1>>
  /\ deck.index = 0

\* C10: the import of a bare card array makes a new deck of the file's cards
\* and leaves the label mapping in memory, the persisted mapping and the
\* pending storage operations as they were.
C10_ArrayImportKeepsLabels ==
  [][last'.op = "importArray"
       => /\ deck'.exists
          /\ \E file \in ImportInputs : IsArray(file) /\ deck'.cards = file.dataset
          /\ labels' = labels
          /\ stored' = stored
          /\ ioQ' = ioQ]_vars

\* a bare array emptied the card store while labels were held in memory and in
\* the store
C10_Witness ==
  /\ last.op = "importArray" /\ last.alert = ""
  /\ deck.exists
  /\ deck.cards = <<>>
  /\ initPc = "done"
  /\ labels # <<>>
  /\ stored.present /\ stored.value = labels

\* the cards of the deck kept under the id `id`
CardsWithId(d, id) == {i \in DOMAIN d.cards : IdOf(d.cards[i]) = id}

\* no later setDifficulty on the id of the oldest pending operation is pending
NoLaterSetDifficulty ==
  \A i \in 2..Len(ioQ) :
    ~(ioQ[i].cont = "setDifficulty" /\ ioQ[i].id = Head(ioQ).id)

\* C11: when setDifficulty(d) on a card has completed (its persist resolved,
\* no other setDifficulty on that card issued meanwhile) the effective
\* difficulty of that card is d, whatever its own field; navigation, filter
\* changes and shuffles leave the label mapping, and so that value, as it is.
C11_SetDifficultyOverrides ==
  [][/\ (/\ last'.op = "editSaved"
         /\ Head(ioQ).cont = "setDifficulty"
         /\ NoLaterSetDifficulty)
          => \A i \in CardsWithId(deck', Head(ioQ).id) :
               EffectiveDifficulty(labels', deck'.cards[i]) = Head(ioQ).arg
     /\ (last'.op \in {"next", "prev", "shuffle", "filter"} => labels' = labels)]_vars

\* the toggleGrasped handlers on the card `id` whose persist is pending
PendingToggles(id) ==
  {i \in DOMAIN ioQ : ioQ[i].cont = "toggleGrasped" /\ ioQ[i].id = id}

\* C12: two toggles of grasped on the same current card give the card the
\* flag it had before the first one, and the same number of grasped labels;
\* this also when the second toggle comes while the first is still being
\* persisted, whose handler holds the flag it found; and the stats written
\* when a persist resolves show the number of grasped labels.
C12_ToggleTwiceRestores ==
  [][/\ (deck.exists /\ DeckHasCurrent(deck)) =>
          LET twice == ToggleGraspedLabels(ToggleGraspedLabels(labels, CurrentId),
                                           CurrentId)
          IN  /\ GraspedFlag(twice, CurrentId) = GraspedFlag(labels, CurrentId)
              /\ GraspedCount(twice) = GraspedCount(labels)
     /\ (/\ last'.op = "toggleGrasped"
         /\ Len(ioQ') = Len(ioQ) + 1
         /\ Cardinality(PendingToggles(CurrentId)) = 1)
          => \A i \in PendingToggles(CurrentId) :
               BoolText(GraspedFlag(labels', CurrentId)) = ioQ[i].arg
     /\ (last'.op = "editSaved" /\ ~last'.raised)
          => ui'.stats.grasped = GraspedCount(labels')]_vars

\* the cards of the Card Store whose label has the grasped flag set
GraspedCards(d, lab) ==
  {i \in DOMAIN d.cards : GraspedFlag(lab, IdOf(d.cards[i]))}

\* renderStats wrote the counts in the last step
StatsRendered ==
  /\ last.op \in {"initLoaded", "filter", "importArray", "importSaved", "editSaved"}
  /\ ~last.raised
  /\ deck.exists
  /\ ui.stats.mode = "counts"

\* C13: whenever the statistics have just been rendered, the grasped count
\* is the number of cards of the current Card Store whose label has
\* grasped = true, whatever the filter, and it does not exceed the total.
C13_GraspedCountOfCardStore ==
  StatsRendered =>
    /\ ui.stats.grasped = Cardinality(GraspedCards(deck, labels))
    /\ ui.stats.grasped <= ui.stats.total

\* the handlers of the user's actions on the deck and on the labels
UserOps ==
  {"next", "prev", "shuffle", "flip", "filter", "toggleGrasped", "setDifficulty",
   "setUsefulness", "cycleUsefulness"}

\* C14: once the fetch or the parse of cards.json has failed at startup, no
\* card is current and every later user action (next, previous, shuffle,
\* flip, filter change, label edit) returns without raising and leaves the
\* deck and the labels as they were.
C14_FailedLoadLeavesSafeEmptyDeck ==
  [][(initPc = "failed" /\ last'.op \in UserOps)
       => /\ ~last'.raised
          /\ ~DeckHasCurrent(deck')
          /\ deck' = deck
          /\ labels' = labels]_vars

\* the label controls show what _applyLabelsToUI shows for the current card
\* of deck d under the labels lab
OverlayAgrees(d, u, lab) ==
  DeckHasCurrent(d) =>
    LET a == ApplyLabelsToUI(App(d, u), lab, IdOf(DeckCurrent(d)))
    IN  ~a.threw /\ a.ui = u

\* C15: when the write to the label store fails during a label edit or a
\* combined import, the order and the cursor stay as they were and stay
\* valid, and the displayed label overlay and the grasped count agree with
\* the labels in memory.
C15_FailedWriteKeepsDisplayConsistent ==
  [][last'.op \in {"editFailed", "importFailed"}
       => /\ deck' = deck
          /\ (deck.order # <<>> => deck.index \in 0..(Len(deck.order) - 1))
          /\ OverlayAgrees(deck', ui', labels')
          /\ (ui'.stats.mode = "counts" => ui'.stats.grasped = GraspedCount(labels'))]_vars

\* a record without a usable id, question or answer
Malformed(c) ==
  \/ ~Truthy(Get(c, "id"))
  \/ TextOrEmpty(c, "question") = <<>>
  \/ TextOrEmpty(c, "answer") = <<>>

\* a dataset has just been loaded, at startup or by an import
DatasetLoaded ==
  /\ last.op \in {"initLoaded", "importArray", "importSaved"}
  /\ ~last.raised
  /\ last.alert = ""
  /\ deck.exists

\* C16: when a dataset with a record lacking id, question or answer has been
\* loaded, at startup or by an import, the issue is reported, and the
\* record is kept: with no filter set every record of the dataset is in the
\* order that navigation walks.
C16_MalformedRecordsReported ==
  (DatasetLoaded /\ \E i \in DOMAIN deck.cards : Malformed(deck.cards[i]))
    => /\ ui.stats.mode = "warning"
       /\ (NoQuery(ui) => Elems(deck.order) = {i - 1 : i \in DOMAIN deck.cards})

\* C17: when the persist of a label edit resolves and a card is current,
\* the label overlay on display is that of the card current at that moment,
\* also when the user moved to another card while the persist was pending.
C17_OverlayFollowsCurrentCard ==
  [][(last'.op = "editSaved" /\ ~last'.raised)
       => OverlayAgrees(deck', ui', labels')]_vars

\* C18: wherever the order is not empty the cursor is a position of it,
\* after any sequence of load, filter change (also to an empty result and
\* back), shuffle, next, previous and import.
C18_CursorWithinOrder ==
  (deck.exists /\ deck.order # <<>>) => deck.index \in 0..(Len(deck.order) - 1)

\* previous has wrapped from the first position to the last of a longer order
C18_Witness ==
  /\ last.op = "prev"
  /\ Len(deck.order) >= 2
  /\ deck.index = Len(deck.order) - 1

\* a filter control has just been changed and applyFilters returned, with
\* cards in the Card Store
FilterChanged ==
  /\ last.op = "filter"
  /\ ~last.raised
  /\ deck.exists
  /\ deck.cards # <<>>

\* C19: after every change of a filter control the order is rebuilt and the
\* cursor is 0, so that the card on display is the first passing card in
\* load order; when no card passes, no card is current and the display
\* shows the no-match text.
C19_FilterChangeRewinds ==
  FilterChanged =>
    /\ deck.order = FilteredOrder(build, deck.cards, ui)
    /\ deck.index = 0
    /\ deck.order # <<>> =>
         /\ ui.face = "front"
         /\ ui.question = TextOrEmpty(deck.cards[deck.order[1] + 1], "question")
    /\ deck.order = <<>> =>
         /\ ~DeckHasCurrent(deck)
         /\ ui.question = NoMatchText

\* C20: after any change of a filter control the order is strictly
\* increasing: the passing cards appear in load order and none twice, also
\* when the order had been shuffled before the change.
C20_FilteredOrderIncreasing ==
  [][(last'.op = "filter" /\ ~last'.raised /\ deck'.exists)
       => \A i, j \in DOMAIN deck'.order : i < j => deck'.order[i] < deck'.order[j]]_vars

\* a filter that is set has kept two cards or more
C20_Witness ==
  /\ last.op = "filter"
  /\ ~last.raised
  /\ ~NoQuery(ui)
  /\ Len(deck.order) >= 2

\* the handlers of the label edits, and the field each of them writes
EditOps == {"toggleGrasped", "setDifficulty", "setUsefulness", "cycleUsefulness"}
EditedField(op) ==
  IF op = "toggleGrasped" THEN "grasped"
  ELSE IF op = "setDifficulty" THEN "difficulty"
  ELSE "usefulness"

\* C21: a label edit changes only the edited field of the current card's
\* label, creating the label if it is absent: the other fields of that label
\* and the labels of all other ids stay as they were, also when an earlier
\* edit's persist is still pending; an edit without a current card changes
\* no label.
C21_LabelEditFrame ==
  [][(last'.op \in EditOps /\ ~last'.raised)
       => IF Len(ioQ') = Len(ioQ) + 1
          THEN LET old == LabelOf(labels, CurrentId)
                   f == EditedField(last'.op)
               IN  /\ DOMAIN labels' = DOMAIN labels \cup {CurrentId}
                   /\ \A x \in DOMAIN labels \ {CurrentId} : labels'[x] = labels[x]
                   /\ DOMAIN labels'[CurrentId] = DOMAIN old \cup {f}
                   /\ \A k \in DOMAIN old \ {f} : labels'[CurrentId][k] = old[k]
          ELSE labels' = labels]_vars

\* setDifficulty has just written a label that holds another field, while the
\* persist of an earlier edit of the same card is pending and another card
\* has a label too
C21_Witness ==
  /\ last.op = "setDifficulty"
  /\ Len(ioQ) = 2
  /\ ioQ[1].cont = "toggleGrasped"
  /\ ioQ[2].cont = "setDifficulty"
  /\ ioQ[1].id = ioQ[2].id
  /\ ioQ[1].id \in DOMAIN labels
  /\ DOMAIN labels[ioQ[1].id] = {"grasped", "difficulty"}
  /\ Cardinality(DOMAIN labels) >= 2

\* C22: every label edit that finds a current card issues a saveLabels of
\* the label mapping, and whenever startup has completed and no store
\* operation is outstanding, the persisted mapping equals the mapping in
\* memory.
C22_PersistedEqualsMemory ==
  [][/\ (last'.op \in EditOps /\ labels' # labels)
          => /\ Len(ioQ') = Len(ioQ) + 1
             /\ ioQ'[Len(ioQ')].kind = "save"
             /\ ioQ'[Len(ioQ')].live
     /\ (initPc' = "done" /\ ioQ' = <<>>) => LoadLabels(stored') = labels']_vars

\* the handlers of navigation and view, and the handlers that load a dataset
ViewOps == {"next", "prev", "shuffle", "flip", "type", "filter"}
DatasetOps == {"initFetched", "importArray", "importCombined"}

\* C23: next, previous, shuffle, flip and the filter controls leave the
\* label mapping as it is, in memory and in the store, and issue no write;
\* no handler but the startup load and an import changes the Card Store.
C23_ViewActionsFrame ==
  [][/\ last'.op \in ViewOps
          => /\ labels' = labels
             /\ stored' = stored
             /\ ioQ' = ioQ
     /\ last'.op \notin DatasetOps
          => /\ deck'.exists = deck.exists
             /\ deck'.cards = deck.cards]_vars

\* shuffle has rearranged two cards or more while labels exist in memory and
\* in the store and a write is pending
C23_Witness ==
  /\ last.op = "shuffle"
  /\ ~last.raised
  /\ Len(deck.order) >= 2
  /\ deck.order # Range(Len(deck.cards))
  /\ labels # <<>>
  /\ stored.present
  /\ ioQ # <<>>

\* C24: when the write of a label edit resolves with startup complete and
\* nothing else outstanding, every entry that was persisted before is still
\* in the mapping in memory and in the store, and both hold the edited field
\* of the edited card, also when the edit was made before the startup
\* loadLabels resolved.
C24_StartupKeepsLabels ==
  [][(last'.op = "editSaved" /\ initPc' = "done" /\ ioQ' = <<>>)
       => LET id == Head(ioQ).id
              f == EditedField(Head(ioQ).cont)
          IN  /\ DOMAIN LoadLabels(stored) \subseteq DOMAIN labels'
              /\ DOMAIN LoadLabels(stored) \subseteq DOMAIN LoadLabels(stored')
              /\ f \in DOMAIN LabelOf(labels', id)
              /\ f \in DOMAIN LabelOf(LoadLabels(stored'), id)]_vars

\* C25: wherever a deck exists, every member of the order is a position of
\* the current Card Store and no position is in the order twice, also right
\* after an import that puts a shorter list of cards in place.
C25_OrderHoldsValidPositions ==
  deck.exists =>
    /\ \A i \in DOMAIN deck.order : deck.order[i] \in 0..(Len(deck.cards) - 1)
    /\ \A i, j \in DOMAIN deck.order : deck.order[i] = deck.order[j] => i = j

\* a bare-array import has just put a single card without categories in
\* place of a dataset that had a card with categories
C25_Witness ==
  /\ last.op = "importArray"
  /\ last.alert = ""
  /\ build = "app"
  /\ ui.catOptions # {}
  /\ Len(deck.cards) = 1
  /\ CategoriesOf(deck.cards[1]) = <<>>
  /\ deck.order = <<0>>

\* the fixed cycle useful -> dangerous -> information -> useful; any other
\* value is followed by useful
NextInCycle(v) ==
  IF v = "useful" THEN "dangerous"
  ELSE IF v = "dangerous" THEN "information"
  ELSE "useful"

\* the usefulness edits of card id whose persist is pending
PendingUsefulness(id) ==
  {i \in DOMAIN ioQ : ioQ[i].cont = "setUsefulness" /\ ioQ[i].id = id}

\* C26: cycleUsefulness moves the effective usefulness of the current card
\* one step along the cycle, a value outside the three allowed ones being
\* followed by useful; three cycles in a row restore an allowed value, and a
\* cycle that follows a usefulness edit of the same card whose persist is
\* still pending continues from the value of that edit.
C26_CycleUsefulnessAdvances ==
  [][(last'.op = "cycleUsefulness" /\ Len(ioQ') = Len(ioQ) + 1)
       => LET c == DeckCurrent(deck)
              v == EffectiveUsefulness(labels, c)
              once == SetUsefulnessLabels(labels, CurrentId, CycleNext(labels, c))
              twice == SetUsefulnessLabels(once, CurrentId, CycleNext(once, c))
              thrice == SetUsefulnessLabels(twice, CurrentId, CycleNext(twice, c))
          IN  /\ EffectiveUsefulness(labels', c) = NextInCycle(v)
              /\ v \in UsefulnessValues => EffectiveUsefulness(thrice, c) = v
              /\ \A x \in UsefulnessValues \cup {"other"} :
                   CycleNext(SetUsefulnessLabels(labels, CurrentId, x), c) = NextInCycle(x)
              /\ Cardinality(PendingUsefulness(CurrentId)) = 1
                   => \A i \in PendingUsefulness(CurrentId) :
                        EffectiveUsefulness(labels', c) = NextInCycle(ioQ[i].arg)]_vars
====
